---- MODULE Spec2Model ----
(***************************************************************************)
(* Transmission expansion planning engine: the data classes of             *)
(* tepe/models.py, the model builder System of tepe/system.py and the      *)
(* result extraction of example.py.                                        *)
(*                                                                         *)
(* Numbers.  Powers are integers in MW, s_base is an integer in MVA and    *)
(* every power of the input sets is a multiple of s_base, so the per-unit  *)
(* quotient x / s_base is exact.  A reactance is an integer number of      *)
(* hundredths (0.50 is 50), chosen so that 1 / reactance is an integer.    *)
(* The solver's variables range over an integer grid.                      *)
(***************************************************************************)
EXTENDS Integers, Sequences, FiniteSets, TLC

VARIABLES
    transmission_lines,   \* System.transmission_lines
    s_base,               \* System.s_base
    model,                \* System.model, the gurobipy problem handle
    expansion_cost,       \* System.expansion_cost
    x,                    \* System.x: str(i) -> variable
    x_vars_map,           \* System.x_vars_map: line -> variable
    generators,           \* System.generators: list of variables
    generator_vars_map,   \* System.generator_vars_map: plant -> variable
    theta,                \* System.theta: list of variables
    theta_vars_map,       \* System.theta_vars_map: node -> variable
    attrs,                \* names of the instance attributes that are set
    calls,                \* number of optimize() calls made so far
    raised,               \* exception the last optimize() call ended with
    decision              \* outcome of the example's last read of a build decision

vars == <<transmission_lines, s_base, model, expansion_cost, x, x_vars_map,
          generators, generator_vars_map, theta, theta_vars_map, attrs, calls,
          raised, decision>>

\* Longest list of transmission lines given to System.
MaxLines == 2
\* Most optimize() calls made on one System.
MaxCalls == 2
\* Largest value of a continuous solver variable on the integer grid.
GridMax == 3

None == "None"

\* A float attribute: Unset while it holds Python's None, Float(v) once set.
Unset == <<>>

Float(v) == <<v>>

---------------------------------------------------------------------------
(* Helpers on sequences and numbers *)

Range(s) == {s[i] : i \in DOMAIN s}

Max(S) == CHOOSE m \in S : \A n \in S : n <= m

Min(S) == CHOOSE m \in S : \A n \in S : m <= n

Abs(n) == IF n < 0 THEN -n ELSE n

RECURSIVE SumSeq(_)
SumSeq(s) == IF s = <<>> THEN 0 ELSE s[1] + SumSeq(Tail(s))

RECURSIVE Flatten(_)
Flatten(ss) == IF ss = <<>> THEN <<>> ELSE ss[1] \o Flatten(Tail(ss))

\* Python's str(i) of a small non-negative integer.
Digits == <<"0", "1", "2", "3", "4", "5", "6", "7", "8", "9">>

Str(i) == Digits[i + 1]

\* A dict built from (key, value) pairs in order: a later pair with an equal
\* key overwrites the value of the earlier one.
Dict(keys, vals) ==
    [k \in Range(keys) |-> vals[Max({i \in DOMAIN keys : keys[i] = k})]]

---------------------------------------------------------------------------
(* tepe/models.py *)

PowerPlant(id, capacity) == [id |-> id, capacity |-> capacity]

Load(value) == [value |-> value]

Node(id, loads, power_plants) ==
    [id |-> id, loads |-> loads, power_plants |-> power_plants]

TransmissionLine(id, capacity, reactance, node_start, node_end, length, cost_per_mile, is_real) ==
    [id |-> id, capacity |-> capacity, reactance |-> reactance,
     node_start |-> node_start, node_end |-> node_end, length |-> length,
     cost_per_mile |-> cost_per_mile, is_real |-> is_real]

\* Node.__hash__
NodeHash(n) == n.id

\* Node.__eq__ as @dataclass generates it: the tuples of all fields compare equal.
NodeEq(a, b) ==
    <<a.id, a.loads, a.power_plants>> = <<b.id, b.loads, b.power_plants>>

total_generation_capacity(n) ==
    SumSeq([k \in DOMAIN n.power_plants |-> n.power_plants[k].capacity])

total_load(n) == SumSeq([k \in DOMAIN n.loads |-> n.loads[k].value])

capital_cost(line) == line.cost_per_mile * line.length

---------------------------------------------------------------------------
(* The gurobipy problem handle, as far as System uses it.                  *)
(*                                                                         *)
(* A variable is its index in creation order.  An expression is a sequence *)
(* of terms c * v (w = 0) or c * v * w, plus a constant.  A variable added *)
(* by addVar()/addVars() and not yet flushed by update() counts as added.  *)

Term(c, v, w) == [c |-> c, v |-> v, w |-> w]

\* v1 - v2
Diff(v1, v2) == <<Term(1, v1, 0), Term(-1, v2, 0)>>

\* k * e, for a number k
Scale(k, e) == [j \in DOMAIN e |-> Term(k * e[j].c, e[j].v, e[j].w)]

\* e * v, for a linear expression e and a variable v
TimesVar(e, v) == [j \in DOMAIN e |-> Term(e[j].c, e[j].v, v)]

\* A constraint  terms + const  sense  rhs  of the named family.
Constr(family, terms, const, sense, rhs) ==
    [family |-> family, terms |-> terms, const |-> const, sense |-> sense,
     rhs |-> rhs]

\* gb.Model()
NewModel ==
    [vtype |-> <<>>, constrs |-> <<>>, objective |-> <<>>, status |-> "LOADED",
     objVal |-> Unset, X |-> <<>>]

\* Model.addVar / Model.addVars: n more variables of type vtype ("B" binary,
\* "C" continuous), each with gurobipy's default lower bound 0.
addVars(m, n, vtype) == [m EXCEPT !.vtype = @ \o [k \in 1..n |-> vtype]]

\* Model.addConstr
addConstr(m, c) == [m EXCEPT !.constrs = Append(@, c)]

RECURSIVE addConstrs(_, _)
addConstrs(m, cs) ==
    IF cs = <<>> THEN m ELSE addConstrs(addConstr(m, cs[1]), Tail(cs))

---------------------------------------------------------------------------
(* tepe/system.py: the derived views *)

\* set.add of a Node, on a set kept as the sequence of its elements in
\* insertion order: a member is found by its hash and then by ==.
SetAdd(s, e) ==
    IF \E i \in DOMAIN s : NodeHash(s[i]) = NodeHash(e) /\ NodeEq(s[i], e)
    THEN s
    ELSE Append(s, e)

RECURSIVE UniqueNodes(_, _)
UniqueNodes(lines, unique_nodes) ==
    IF lines = <<>>
    THEN unique_nodes
    ELSE UniqueNodes(Tail(lines),
                     SetAdd(SetAdd(unique_nodes, lines[1].node_start),
                            lines[1].node_end))

\* System.nodes, in the order the set is iterated.  The set is rebuilt by the
\* same insertions on every access, so every access iterates in the same order.
nodes == UniqueNodes(transmission_lines, <<>>)

\* System.power_plants
power_plants == Flatten([k \in DOMAIN nodes |-> nodes[k].power_plants])

transmission_line_count == Len(transmission_lines)

node_count == Len(nodes)

power_plant_count == Len(power_plants)

\* v / s_base
PerUnit(v) == v \div s_base

\* 1 / reactance for a reactance in hundredths; Python raises
\* ZeroDivisionError for reactance = 0 (see SusceptanceRaises).
Reciprocal(reactance) ==
    IF reactance > 0 THEN 100 \div reactance ELSE -(100 \div (-reactance))

\* System.get_susceptance_matrix
get_susceptance_matrix ==
    [i \in DOMAIN transmission_lines |->
        Reciprocal(transmission_lines[i].reactance)]

SusceptanceRaises ==
    \E i \in DOMAIN transmission_lines : transmission_lines[i].reactance = 0

---------------------------------------------------------------------------
(* tepe/system.py: variables *)

\* Variant: every call starts from an empty problem.
generate_variables_reset(m) ==
    LET L  == transmission_line_count
        P  == power_plant_count
        N  == node_count
        xs == [k \in {Str(i) : i \in 0..(L - 1)} |->
                 1 + (CHOOSE i \in 0..(L - 1) : Str(i) = k)]
        gs == [k \in 1..P |-> L + k]
        ts == [k \in 1..N |-> L + P + k]
    IN  [model |-> addVars(addVars(addVars(NewModel, L, "B"), P, "C"), N, "C"),
         x |-> xs,
         x_vars_map |->
             Dict(transmission_lines,
                  [i \in DOMAIN transmission_lines |-> xs[Str(i - 1)]]),
         generators |-> gs,
         generator_vars_map |-> Dict(power_plants, gs),
         theta |-> ts,
         theta_vars_map |-> Dict(nodes, ts)]

\* System.generate_variables on problem m: the problem with the new
\* variables, and the attributes the method sets.
generate_variables(m) ==
    LET n0 == Len(m.vtype)
        L  == transmission_line_count
        P  == power_plant_count
        N  == node_count
        xs == [k \in {Str(i) : i \in 0..(L - 1)} |->
                 n0 + 1 + (CHOOSE i \in 0..(L - 1) : Str(i) = k)]
        gs == [k \in 1..P |-> n0 + L + k]
        ts == [k \in 1..N |-> n0 + L + P + k]
    IN  [model |-> addVars(addVars(addVars(m, L, "B"), P, "C"), N, "C"),
         x |-> xs,
         x_vars_map |->
             Dict(transmission_lines,
                  [i \in DOMAIN transmission_lines |-> xs[Str(i - 1)]]),
         generators |-> gs,
         generator_vars_map |-> Dict(power_plants, gs),
         theta |-> ts,
         theta_vars_map |-> Dict(nodes, ts)]

---------------------------------------------------------------------------
(* tepe/system.py: restrictions.  self is the record of the attributes     *)
(* generate_variables set.                                                 *)

\* np.pi on the integer grid of angles
PI == 3

\* System.generate_power_plant_restrictions
generate_power_plant_restrictions(m, self) ==
    addConstrs(m, Flatten(
        [k \in DOMAIN power_plants |->
            LET power_plant == power_plants[k]
                capacity_pu == PerUnit(power_plant.capacity)
                g           == self.generator_vars_map[power_plant]
            IN  << Constr("plant", <<Term(1, g, 0)>>, 0, "<=", capacity_pu),
                   Constr("plant", <<Term(1, g, 0)>>, 0, ">=", 0) >>]))

\* System.generate_angle_restrictions
generate_angle_restrictions(m, self) ==
    addConstrs(m, Flatten(
        [k \in DOMAIN self.theta |->
            LET angle == self.theta[k]
            IN  << Constr("angle", <<Term(1, angle, 0)>>, 0, "<=", PI),
                   Constr("angle", <<Term(1, angle, 0)>>, 0, ">=", -PI) >>]))

\* The constraints generate_line_restrictions adds for line i.
LineRestrictions(i, self) ==
    LET b           == get_susceptance_matrix
        line        == transmission_lines[i]
        capacity_pu == PerUnit(line.capacity)
        theta_1     == self.theta_vars_map[line.node_start]
        theta_2     == self.theta_vars_map[line.node_end]
        line_control_var == self.x_vars_map[line]
    IN  << Constr("line", TimesVar(Scale(-b[i], Diff(theta_1, theta_2)),
                                   line_control_var), 0, "<=", capacity_pu),
           Constr("line", TimesVar(Scale(-b[i], Diff(theta_2, theta_1)),
                                   line_control_var), 0, "<=", capacity_pu) >>
        \o (IF line.is_real
            THEN << Constr("line", Scale(-b[i], Diff(theta_1, theta_2)), 0,
                           "<=", capacity_pu),
                    Constr("line", Scale(-b[i], Diff(theta_2, theta_1)), 0,
                           "<=", capacity_pu) >>
            ELSE <<>>)

\* System.generate_line_restrictions, once the susceptances are computed
generate_line_restrictions(m, self) ==
    addConstrs(m, Flatten(
        [i \in DOMAIN transmission_lines |-> LineRestrictions(i, self)]))

\* Variant: an existing line's unweighted term enters the balance of its end
\* node only.
LineTermsExistingAtEndOnly(i, node, self) ==
    LET b    == get_susceptance_matrix
        line == transmission_lines[i]
        ts   == self.theta_vars_map[line.node_start]
        te   == self.theta_vars_map[line.node_end]
    IN  IF NodeEq(line.node_start, node)
        THEN TimesVar(Scale(b[i], Diff(ts, te)), self.x_vars_map[line])
        ELSE IF NodeEq(line.node_end, node)
        THEN TimesVar(Scale(b[i], Diff(te, ts)), self.x_vars_map[line])
             \o (IF line.is_real THEN Scale(b[i], Diff(te, ts)) ELSE <<>>)
        ELSE <<>>

\* The terms line i appends to line_terms in the balance of node.
LineTerms(i, node, self) ==
    LET b    == get_susceptance_matrix
        line == transmission_lines[i]
        ts   == self.theta_vars_map[line.node_start]
        te   == self.theta_vars_map[line.node_end]
    IN  IF NodeEq(line.node_start, node)
        THEN TimesVar(Scale(b[i], Diff(ts, te)), self.x_vars_map[line])
             \o (IF line.is_real THEN Scale(b[i], Diff(ts, te)) ELSE <<>>)
        ELSE IF NodeEq(line.node_end, node)
        THEN TimesVar(Scale(b[i], Diff(te, ts)), self.x_vars_map[line])
             \o (IF line.is_real THEN Scale(b[i], Diff(te, ts)) ELSE <<>>)
        ELSE <<>>

\* The balance constraint generate_node_restrictions adds for node.
NodeRestriction(node, self) ==
    LET gens == [k \in DOMAIN node.power_plants |->
                    Term(1, self.generator_vars_map[node.power_plants[k]], 0)]
        loads_pu   == PerUnit(total_load(node))
        line_terms == Flatten([i \in DOMAIN transmission_lines |->
                                  LineTerms(i, node, self)])
    IN  Constr("node", gens \o Scale(-1, line_terms), -loads_pu, "=", 0)

\* System.generate_node_restrictions
generate_node_restrictions(m, self) ==
    addConstrs(m, [k \in DOMAIN nodes |-> NodeRestriction(nodes[k], self)])

\* Variant: only the candidate lines carry a cost.
ObjectiveCandidatesOnly(self) ==
    [i \in DOMAIN transmission_lines |->
        Term(IF transmission_lines[i].is_real
             THEN 0
             ELSE capital_cost(transmission_lines[i]),
             self.x[Str(i - 1)], 0)]

\* The objective optimize() sets: sum of x[str(i)] * line.capital_cost
Objective(self) ==
    [i \in DOMAIN transmission_lines |->
        Term(capital_cost(transmission_lines[i]), self.x[Str(i - 1)], 0)]

\* Model.setObjective
setObjective(m, fob) == [m EXCEPT !.objective = fob]

---------------------------------------------------------------------------
(* The solver (Model.optimize).  An assignment gives every variable of a   *)
(* range lo+1..hi a value of its domain.  Variables that share no          *)
(* constraint are independent, so the problem is solved range by range     *)
(* between the cut points no constraint straddles: it is feasible iff      *)
(* every range is, and its optimum is the sum of the ranges' optima.       *)

\* Values of a continuous variable on the integer grid, from gurobipy's
\* default lower bound 0.
Grid == 0..GridMax

VarDomain(m, v) == IF m.vtype[v] = "B" THEN {0, 1} ELSE Grid

RECURSIVE Eval(_, _)
Eval(terms, a) ==
    IF terms = <<>>
    THEN 0
    ELSE terms[1].c * a[terms[1].v]
            * (IF terms[1].w = 0 THEN 1 ELSE a[terms[1].w])
         + Eval(Tail(terms), a)

Satisfies(a, c) ==
    LET lhs == Eval(c.terms, a) + c.const
    IN  CASE c.sense = "<=" -> lhs <= c.rhs
          [] c.sense = ">=" -> lhs >= c.rhs
          [] c.sense = "="  -> lhs = c.rhs

VarsOf(terms) ==
    {terms[j].v : j \in DOMAIN terms} \cup ({terms[j].w : j \in DOMAIN terms} \ {0})

\* Number of constraints of cs that mention variable v.
Degree(m, cs, v) == Cardinality({j \in cs : v \in VarsOf(m.constrs[j].terms)})

\* The variables of rest, those that occur in most constraints of cs first.
\* The search assigns them in this order, so that a constraint is decided as
\* early as all its variables have values; the order does not change the set
\* of assignments found.
RECURSIVE SearchOrder(_, _, _)
SearchOrder(m, cs, rest) ==
    IF rest = {}
    THEN <<>>
    ELSE LET top   == Max({Degree(m, cs, v) : v \in rest})
             first == Min({v \in rest : Degree(m, cs, v) = top})
         IN  <<first>> \o SearchOrder(m, cs, rest \ {first})

\* The assignments of the first k variables of order that satisfy every
\* constraint of cs whose variables are all among them.
RECURSIVE Search(_, _, _, _)
Search(m, cs, order, k) ==
    IF k = 0
    THEN {<<>>}
    ELSE LET done == {order[n] : n \in 1..k}
             due  == {j \in cs : LET vs == VarsOf(m.constrs[j].terms)
                                 IN  order[k] \in vs /\ vs \subseteq done}
             ext  == {[v \in done |-> IF v = order[k] THEN pd[2] ELSE pd[1][v]] :
                         pd \in Search(m, cs, order, k - 1)
                                   \X VarDomain(m, order[k])}
         IN  {a \in ext : \A j \in due : Satisfies(a, m.constrs[j])}

\* The assignments of lo+1..hi that satisfy every constraint of cs (indices
\* into m.constrs) whose variables all lie in lo+1..hi.
Assignments(m, cs, lo, hi) ==
    LET own == {j \in cs : VarsOf(m.constrs[j].terms) \subseteq (lo + 1)..hi}
    IN  Search(m, own, SearchOrder(m, own, (lo + 1)..hi), hi - lo)

CutPoints(m) ==
    {k \in 0..Len(m.vtype) :
        \A j \in DOMAIN m.constrs :
            LET vs == VarsOf(m.constrs[j].terms)
            IN  (\A v \in vs : v <= k) \/ (\A v \in vs : v > k)}

\* The ranges <<lo, hi>> between neighbouring cut points.
Blocks(m) ==
    LET cuts == CutPoints(m)
    IN  {b \in cuts \X cuts :
            b[1] < b[2] /\ \A k \in cuts : ~(b[1] < k /\ k < b[2])}

\* A constraint without variables holds or fails by itself.
ConstantsHold(m) ==
    \A j \in DOMAIN m.constrs :
        VarsOf(m.constrs[j].terms) = {} => Satisfies(<<>>, m.constrs[j])

BlockFeasible(m, b) == Assignments(m, DOMAIN m.constrs, b[1], b[2])

\* The objective's terms on the variables of range b.
BlockObjective(m, b) ==
    SelectSeq(m.objective, LAMBDA t : b[1] < t.v /\ t.v <= b[2])

BlockOptimal(m, b) ==
    LET F   == BlockFeasible(m, b)
        obj == BlockObjective(m, b)
    IN  IF F = {}
        THEN {}
        ELSE LET best == Min({Eval(obj, a) : a \in F})
             IN  {a \in F : Eval(obj, a) = best}

\* What the solve of range b yields: whether it is feasible, its least
\* objective value, and the restrictions of its optimal assignments to the
\* variables vs.
BlockResult(m, b, vs) ==
    LET opt == BlockOptimal(m, b)
        obj == BlockObjective(m, b)
        in  == {v \in vs : b[1] < v /\ v <= b[2]}
    IN  IF opt = {}
        THEN [b |-> b, feasible |-> FALSE, best |-> 0, X |-> {}]
        ELSE [b |-> b, feasible |-> TRUE,
              best |-> Eval(obj, CHOOSE a \in opt : TRUE),
              X |-> {[v \in in |-> a[v]] : a \in opt}]

RECURSIVE SumBest(_)
SumBest(rs) ==
    IF rs = {} THEN 0
    ELSE LET r == CHOOSE r \in rs : TRUE IN r.best + SumBest(rs \ {r})

\* The assignments of vs that agree with one of r.X on every range r.
RECURSIVE Combine(_)
Combine(rs) ==
    IF rs = {}
    THEN {<<>>}
    ELSE LET r == CHOOSE r \in rs : TRUE
         IN  {[v \in DOMAIN f \cup DOMAIN g |->
                  IF v \in DOMAIN f THEN f[v] ELSE g[v]] :
                 f \in r.X, g \in Combine(rs \ {r})}

\* Model.optimize: the problems the solve may leave.  X keeps the solution
\* values of the variables vs, the ones the program reads afterwards.
optimize(m, vs) ==
    LET rs == {BlockResult(m, b, vs) : b \in Blocks(m)}
    IN  IF ConstantsHold(m) /\ \A r \in rs : r.feasible
        THEN {[m EXCEPT !.status = "OPTIMAL", !.objVal = Float(SumBest(rs)), !.X = f] :
                 f \in Combine(rs)}
        ELSE {[m EXCEPT !.status = "INFEASIBLE", !.objVal = Unset, !.X = <<>>]}

---------------------------------------------------------------------------
(* tepe/system.py: the driver *)

\* System.generate_restrictions: the problem it leaves and the exception it
\* ends with.  generate_line_restrictions computes the susceptances before
\* it adds its first constraint.
generate_restrictions(m, self) ==
    LET m1 == generate_power_plant_restrictions(m, self)
        m2 == generate_angle_restrictions(m1, self)
    IN  IF SusceptanceRaises
        THEN [model |-> m2, raised |-> "ZeroDivisionError"]
        ELSE [model |-> generate_node_restrictions(
                            generate_line_restrictions(m2, self), self),
              raised |-> None]

\* Reading Model.objVal raises AttributeError unless a solution is available.
ObjValRaises(m) == m.status # "OPTIMAL"

\* Variant: a solve without a solution stores a number all the same.
StoreExpansionCostAlways(old, m) ==
    IF ObjValRaises(m) THEN Float(0) ELSE m.objVal

\* self.expansion_cost = self.model.objVal
StoreExpansionCost(old, m) == IF ObjValRaises(m) THEN old ELSE m.objVal

\* The instance attributes __init__ sets, and those generate_variables sets.
InitAttrs == {"transmission_lines", "s_base", "model", "expansion_cost"}

VariableAttrs ==
    {"x", "x_vars_map", "generators", "generator_vars_map", "theta",
     "theta_vars_map"}

\* The properties and methods of class System.
ClassAttrs ==
    {"nodes", "power_plants", "transmission_line_count", "node_count",
     "power_plant_count", "get_susceptance_matrix", "generate_variables",
     "generate_power_plant_restrictions", "generate_angle_restrictions",
     "generate_line_restrictions", "generate_node_restrictions",
     "generate_restrictions", "optimize"}

---------------------------------------------------------------------------
(* Inputs *)

SBases == {2}

Reactances == {-100, 0, 50, 100}

Plant1 == PowerPlant(1, 4)

NodeA == Node(1, <<>>, <<Plant1>>)

NodeB == Node(2, <<Load(2), Load(2)>>, <<>>)

\* A second Node object with the id of NodeA.
NodeC == Node(1, <<Load(4)>>, <<Plant1>>)

LineName(s, e) == <<<<"1-1", "1-2">>, <<"2-1", "2-2">>>>[s.id][e.id]

\* Candidate lines from NodeA to NodeB of every reactance, and existing lines
\* of reactance 1.00 between <<node_start, node_end>> with a capacity.
LineObjs ==
    {TransmissionLine(LineName(NodeA, NodeB), 2, r, NodeA, NodeB, 1, 3, FALSE) :
        r \in Reactances}
    \cup
    {TransmissionLine(LineName(e[1], e[2]), e[3], 100, e[1], e[2], 2, 3, TRUE) :
        e \in {<<NodeA, NodeB, 2>>, <<NodeA, NodeB, 4>>, <<NodeA, NodeC, 2>>,
               <<NodeC, NodeC, 2>>}}

LineLists == UNION {[1..n -> LineObjs] : n \in 0..MaxLines}

---------------------------------------------------------------------------
(* The state machine *)

\* System.__init__
Init ==
    /\ transmission_lines \in LineLists
    /\ s_base \in SBases
    /\ model = NewModel
    /\ expansion_cost = Unset
    /\ x = <<>>
    /\ x_vars_map = <<>>
    /\ generators = <<>>
    /\ generator_vars_map = <<>>
    /\ theta = <<>>
    /\ theta_vars_map = <<>>
    /\ attrs = InitAttrs
    /\ calls = 0
    /\ raised = None
    /\ decision = [read |-> FALSE, i |-> 0, error |-> None]

\* System.optimize, called by a script that no uncaught exception of the
\* result extraction has ended.
Optimize ==
    /\ calls < MaxCalls
    /\ decision.error = None
    /\ calls' = calls + 1
    /\ LET self == generate_variables(model)
           r    == generate_restrictions(self.model, self)
       IN  /\ x' = self.x
           /\ x_vars_map' = self.x_vars_map
           /\ generators' = self.generators
           /\ generator_vars_map' = self.generator_vars_map
           /\ theta' = self.theta
           /\ theta_vars_map' = self.theta_vars_map
           /\ attrs' = attrs \cup VariableAttrs
           /\ IF r.raised # None
              THEN /\ model' = r.model
                   /\ raised' = r.raised
                   /\ UNCHANGED expansion_cost
              ELSE \E m \in optimize(setObjective(r.model, Objective(self)),
                                     Range(self.x)) :
                       /\ model' = m
                       /\ raised' = IF ObjValRaises(m) THEN "AttributeError"
                                                       ELSE None
                       /\ expansion_cost' = StoreExpansionCost(expansion_cost, m)
    /\ UNCHANGED <<transmission_lines, s_base, decision>>

\* example.py, the next pass of the loop over the lines after optimize()
\* returned: int(round(system.line_control[str(i)].X)).  Reading an attribute
\* the instance and its class do not have raises AttributeError, which ends
\* the loop.
ReadDecision ==
    /\ calls > 0
    /\ raised = None
    /\ decision.error = None
    /\ LET i == IF decision.read THEN decision.i + 1 ELSE 0
       IN  /\ i < Len(transmission_lines)
           /\ decision' =
                 IF "line_control" \in attrs \cup ClassAttrs
                 THEN [read |-> TRUE, i |-> i, error |-> None]
                 ELSE [read |-> TRUE, i |-> i, error |-> "AttributeError"]
    /\ UNCHANGED <<transmission_lines, s_base, model, expansion_cost, x,
                   x_vars_map, generators, generator_vars_map, theta,
                   theta_vars_map, attrs, calls, raised>>

Next == Optimize \/ ReadDecision

Spec == Init /\ [][Next]_vars

---------------------------------------------------------------------------
(* Vocabulary of the properties *)

\* The attributes generate_variables set, as the restrictions read them.
Self ==
    [x |-> x, x_vars_map |-> x_vars_map, generators |-> generators,
     generator_vars_map |-> generator_vars_map, theta |-> theta,
     theta_vars_map |-> theta_vars_map]

Lines == DOMAIN transmission_lines

RealLines == {i \in Lines : transmission_lines[i].is_real}

\* The build variable of the line at list position i (1-based), by position.
XOf(i) == x[Str(i - 1)]

\* Number of variables the problem held before the latest optimize() call.
VarsBefore ==
    Len(model.vtype)
        - (transmission_line_count + power_plant_count + node_count)

\* The latest call got through generate_restrictions.
Generated == calls > 0 /\ ~SusceptanceRaises

\* The latest call returned normally.
Solved == calls > 0 /\ raised = None

\* The restrictions to the build variables of the assignments that satisfy
\* every constraint of the problem.
FeasibleBuilds ==
    Combine({[b |-> b,
              X |-> {[v \in {u \in Range(x) : b[1] < u /\ u <= b[2]} |-> a[v]] :
                        a \in BlockFeasible(model, b)}] : b \in Blocks(model)})

\* sum over all lines of f's value for the line's variable * cost_per_mile * length
BuildCost(f) ==
    SumSeq([i \in Lines |->
        f[XOf(i)] * transmission_lines[i].cost_per_mile
                  * transmission_lines[i].length])

\* The assignments of the latest call's variables that satisfy the problem,
\* none when another part of the problem has no solution.
FeasibleNow ==
    IF \A b \in Blocks(model) : BlockFeasible(model, b) # {}
    THEN Assignments(model, DOMAIN model.constrs, VarsBefore, Len(model.vtype))
    ELSE {}

\* The assignments of the latest call's variables that satisfy its nodal
\* balance constraints.
BalanceAssignments ==
    Assignments(model,
                {j \in DOMAIN model.constrs : model.constrs[j].family = "node"},
                VarsBefore, Len(model.vtype))

\* The input meets the data model: every reactance is positive and the
\* endpoints that carry one node id are equal Node objects.
WellFormedInput ==
    /\ \A i \in Lines : transmission_lines[i].reactance > 0
    /\ \A i, j \in Lines :
          \A n1 \in {transmission_lines[i].node_start, transmission_lines[i].node_end} :
              \A n2 \in {transmission_lines[j].node_start, transmission_lines[j].node_end} :
                  n1.id = n2.id => NodeEq(n1, n2)

\* Every power plant is listed once, by one node.
PlantsUniquelyOwned ==
    \A i, j \in DOMAIN power_plants :
        i # j => power_plants[i] # power_plants[j]

---------------------------------------------------------------------------
(* Properties *)

\* C1: System.nodes holds exactly one Node per distinct node id that occurs
\* as a node_start or node_end, whatever loads and plants the Node objects
\* carrying that id list.
C1_OneNodePerId ==
    LET ids == {transmission_lines[i].node_start.id : i \in Lines}
                 \cup {transmission_lines[i].node_end.id : i \in Lines}
    IN  /\ {nodes[k].id : k \in DOMAIN nodes} = ids
        /\ \A j, k \in DOMAIN nodes : j # k => nodes[j].id # nodes[k].id

\* C2: when every line has is_real = true, the optimum optimize() finds has
\* every build variable at 0 and expansion_cost = 0 (stated for the inputs
\* that meet the data model).
C2_AllRealBuildsNothing ==
    (Solved /\ WellFormedInput /\ RealLines = Lines) =>
        /\ \A i \in Lines : model.X[XOf(i)] = 0
        /\ expansion_cost = Float(0)

\* C3: with a line of zero or negative reactance, optimize() fails with an
\* error and the problem holds no variable at the moment of failure.
C3_BadReactanceFailsBeforeVariables ==
    (calls > 0 /\ \E i \in Lines : transmission_lines[i].reactance <= 0) =>
        /\ raised # None
        /\ Len(model.vtype) = 0

\* C4: when the solver finds the constraint system infeasible, optimize()
\* ends with expansion_cost still None.
C4_InfeasibleLeavesCostUnset ==
    (calls > 0 /\ model.status = "INFEASIBLE") => expansion_cost = Unset

\* C4 witness: a second optimize() call on a well-formed input ended in an
\* infeasible solve.
C4_Witness ==
    /\ calls > 1
    /\ WellFormedInput
    /\ model.status = "INFEASIBLE"
    /\ raised = "AttributeError"

\* C5: after a successful optimize(), expansion_cost is the sum over all
\* lines, existing ones included, of x_i * cost_per_mile_i * length_i at the
\* optimal x, and no assignment satisfying the constraints has a smaller sum.
C5_CostIsLeastSumOverAllLines ==
    Solved =>
        /\ expansion_cost = Float(BuildCost(model.X))
        /\ \A f \in FeasibleBuilds : BuildCost(f) >= expansion_cost[1]

\* C5 witness: a successful optimize() of positive cost on a well-formed
\* input, where a build vector that selects an existing line costs more.
C5_Witness ==
    /\ Solved
    /\ WellFormedInput
    /\ expansion_cost # Float(0)
    /\ \E f \in FeasibleBuilds :
          /\ BuildCost(f) > expansion_cost[1]
          /\ \E i \in RealLines : f[XOf(i)] = 1

\* C6: once optimize() has completed successfully, the build decision of
\* every line index is readable the way the example reads it, without error.
C6_DecisionReadable == decision.read => decision.error = None

C8_RealLineFlowWithinLimit ==
    (Generated /\ WellFormedInput) =>
        \A a \in FeasibleNow : \A i \in RealLines :
            LET line == transmission_lines[i]
            IN  \A node \in {line.node_start, line.node_end} :
                    Abs(Eval(LineTerms(i, node, Self), a))
                        <= PerUnit(line.capacity)

\* C9: for every list position i, the variable that multiplies line i's
\* terms in the constraints (x_vars_map) is the one that carries its cost in
\* the objective (x[str(i)]), and no two positions share a constraint variable
\* (stated for the inputs that meet the data model).
C9_ConstraintVariableIsObjectiveVariable ==
    (calls > 0 /\ WellFormedInput) =>
        /\ \A i \in Lines : x_vars_map[transmission_lines[i]] = XOf(i)
        /\ \A i, j \in Lines :
              i # j => x_vars_map[transmission_lines[i]]
                          # x_vars_map[transmission_lines[j]]

\* C10: when every power plant is listed once by one node, every assignment
\* satisfying the nodal balance constraints has the generator variables sum
\* to the nodes' total_load / s_base; a line's terms at its start node are
\* the negation of its terms at its end node, and zero for a line from a
\* node to itself.
C10_PowerConservation ==
    (Generated /\ PlantsUniquelyOwned) =>
        \A a \in BalanceAssignments :
            /\ SumSeq([k \in DOMAIN generators |-> a[generators[k]]])
                  = SumSeq([k \in DOMAIN nodes |-> PerUnit(total_load(nodes[k]))])
            /\ \A i \in Lines :
                  LET line  == transmission_lines[i]
                      start == Eval(LineTerms(i, line.node_start, Self), a)
                      end   == Eval(LineTerms(i, line.node_end, Self), a)
                  IN  IF NodeEq(line.node_start, line.node_end)
                      THEN start = 0
                      ELSE start = -end

\* C10 witness: a well-formed input with uniquely owned plants whose balance
\* constraints admit an assignment with a non-zero line flow.
C10_Witness ==
    /\ Generated
    /\ WellFormedInput
    /\ PlantsUniquelyOwned
    /\ power_plant_count > 0
    /\ \E a \in BalanceAssignments : \E i \in Lines :
          Eval(LineTerms(i, transmission_lines[i].node_start, Self), a) > 0

====
